---- MODULE Spec2Model ----
(***************************************************************************)
(* Zip tree iterators of zip_tree_iterator.py.                             *)
(*                                                                         *)
(* A zip tree is a nested value built from seeds, chains (python lists     *)
(* alternating element and distance) and snarls (python tuples of chain    *)
(* entries followed by one boundary record).  The four generators of the   *)
(* file are modelled as operators that compute the sequence of values the  *)
(* generator yields, loop by loop as the code runs them; the state machine *)
(* is a caller that holds one immutable tree and calls the generators.     *)
(***************************************************************************)
EXTENDS Integers, Sequences, FiniteSets, TLC

\* Largest distance token drawn for the free distances of an input tree.
MaxDist == 2
\* Largest small max_distance a caller passes (the smallest is -1).
MaxBound == 4
\* max_distance of the demo's right-to-left walk: larger than any total distance.
DemoLargeBound == 1000
\* max_distance of the demo's all-pairs query.
DemoPairsBound == 15

(***************************************************************************)
(* Data model.  Python discriminates by runtime class (tuple, list, other);*)
(* the model tags the three kinds.  A chain keeps the python list (element,*)
(* distance, element, ...), a snarl keeps the python tuple (chain entries, *)
(* then the boundary record); a chain entry is the tuple                   *)
(* (d_0, ..., d_i, chain) and the boundary record the tuple (b_0, ..., b_N).*)
(***************************************************************************)
Seed(n) == [kind |-> "seed", name |-> n]
Chain(items) == [kind |-> "chain", items |-> items]
Snarl(entries) == [kind |-> "snarl", entries |-> entries]

is_snarl(e) == e.kind = "snarl"
is_chain(e) == e.kind = "chain"

\* The python sequence under a container, and python's len, s[i], s[-1].
body(e) == IF is_snarl(e) THEN e.entries ELSE e.items
len(e) == Len(body(e))
at(s, i) == s[i + 1]
last(s) == s[Len(s)]

RECURSIVE zip_element_right_to_left_iterator(_, _)
RECURSIVE rtl_snarl_loop(_, _, _)
RECURSIVE rtl_chain_loop(_, _, _, _)
RECURSIVE zip_element_left_to_right_iterator(_)
RECURSIVE ltr_snarl_loop(_, _)
RECURSIVE ltr_chain_loop(_, _)
RECURSIVE reach_snarl_loop(_, _, _, _, _)
RECURSIVE reach_chain_loop(_, _, _, _)
RECURSIVE reach_loop(_, _, _, _)

(***************************************************************************)
(* zip_element_right_to_left_iterator                                      *)
(***************************************************************************)
\* Mutant of yield_within: the "if d <= max_distance" test is dropped.
yield_unfiltered(nested, offset, max_distance) ==
    [n \in 1..Len(nested) |-> <<nested[n][1], nested[n][2] + offset>>]

\* Mutant of yield_within: the test is off by one (d <= max_distance + 1).
yield_within_slack(nested, offset, max_distance) ==
    SelectSeq([n \in 1..Len(nested) |-> <<nested[n][1], nested[n][2] + offset>>],
              LAMBDA p : p[2] <= max_distance + 1)

\* The body of every "for seed, nested_distance in ..." loop:
\* d = nested_distance + offset; if d <= max_distance: yield seed, d
yield_within(nested, offset, max_distance) ==
    SelectSeq([n \in 1..Len(nested) |-> <<nested[n][1], nested[n][2] + offset>>],
              LAMBDA p : p[2] <= max_distance)

\* Mutant of snarl_min_distance: the snarl's skip distance is never added.
snarl_min_distance_dropped(nested_element) == 0

\* "if isinstance(nested_element, tuple): distance += nested_element[-1][0]"
snarl_min_distance(nested_element) ==
    IF is_snarl(nested_element) THEN at(last(nested_element.entries), 0) ELSE 0

\* The snarl loop, for i in range(len(element)-2, -1, -1), from index i on.
rtl_snarl_loop(element, max_distance, i) ==
    IF i < 0 THEN <<>>
    ELSE yield_within(
             zip_element_right_to_left_iterator(last(at(element.entries, i)), max_distance),
             at(last(element.entries), i + 1), max_distance)
         \o rtl_snarl_loop(element, max_distance, i - 1)

\* Mutant of chain_done: stops as soon as the running sum reaches max_distance.
chain_done_early(distance, max_distance) == distance >= max_distance

\* "if distance_from_right_chain_end > max_distance: return"
chain_done(distance, max_distance) == distance > max_distance

\* Mutant of chain_advance: the gap replaces the running sum instead of adding to it.
chain_advance_reset(element, i, distance) ==
    IF i > 0 THEN at(element.items, i - 1)
    ELSE distance + snarl_min_distance(at(element.items, i))

\* The running sum after sub-element i: the snarl's skip distance, then the
\* next gap to the left when i > 0.
chain_advance(element, i, distance) ==
    distance + snarl_min_distance(at(element.items, i))
             + (IF i > 0 THEN at(element.items, i - 1) ELSE 0)

\* The chain loop, for i in range(len(element)-1, -1, -2), from index i on with
\* distance_from_right_chain_end = distance.
rtl_chain_loop(element, max_distance, i, distance) ==
    IF i < 0 THEN <<>>
    ELSE yield_within(
             zip_element_right_to_left_iterator(at(element.items, i), max_distance),
             distance, max_distance)
         \o (IF chain_done(chain_advance(element, i, distance), max_distance)
             THEN <<>>
             ELSE rtl_chain_loop(element, max_distance, i - 2,
                                 chain_advance(element, i, distance)))

zip_element_right_to_left_iterator(element, max_distance) ==
    IF is_snarl(element) THEN rtl_snarl_loop(element, max_distance, len(element) - 2)
    ELSE IF is_chain(element)
         THEN rtl_chain_loop(element, max_distance, len(element) - 1, 0)
         ELSE << <<element, 0>> >>

(***************************************************************************)
(* zip_element_left_to_right_iterator                                      *)
(***************************************************************************)
\* Mutant of extend_path: the container is put in front (outermost first).
extend_path_front(nested, element, i) ==
    [n \in 1..Len(nested) |-> <<nested[n][1], <<element, i>> \o nested[n][2]>>]

\* "yield seed, contained_elements + [element, i]" for every nested pair.
extend_path(nested, element, i) ==
    [n \in 1..Len(nested) |-> <<nested[n][1], nested[n][2] \o <<element, i>>>>]

\* The snarl loop, for i in range(0, len(element)-1), from index i on.
ltr_snarl_loop(element, i) ==
    IF i >= len(element) - 1 THEN <<>>
    ELSE extend_path(zip_element_left_to_right_iterator(last(at(element.entries, i))),
                     element, i)
         \o ltr_snarl_loop(element, i + 1)

\* The chain loop, for i in range(0, len(element), 2), from index i on.
ltr_chain_loop(element, i) ==
    IF i >= len(element) THEN <<>>
    ELSE extend_path(zip_element_left_to_right_iterator(at(element.items, i)), element, i)
         \o ltr_chain_loop(element, i + 2)

zip_element_left_to_right_iterator(element) ==
    IF is_snarl(element) THEN ltr_snarl_loop(element, 0)
    ELSE IF is_chain(element) THEN ltr_chain_loop(element, 0)
         ELSE << <<element, <<>> >> >>

(***************************************************************************)
(* zip_reachable_iterator                                                  *)
(***************************************************************************)
\* Mutant of entry_distance: the chain entry is read one place to the left.
entry_distance_shifted(element, j, k) == at(at(element.entries, j), k)

\* "element[j][k + 1]": from the left side of chain j to the right side of chain k.
entry_distance(element, j, k) == at(at(element.entries, j), k + 1)

\* The loop over the preceding chains of a snarl, for k in range(j-1, -1, -1),
\* from index k on: d = nested_distance + element[j][k + 1] + distance_from_right.
reach_snarl_loop(element, j, max_distance, k, distance_from_right) ==
    IF k < 0 THEN <<>>
    ELSE yield_within(
             zip_element_right_to_left_iterator(last(at(element.entries, k)), max_distance),
             entry_distance(element, j, k) + distance_from_right, max_distance)
         \o reach_snarl_loop(element, j, max_distance, k - 1, distance_from_right)

\* Mutant of step_out_distance: the boundary record's entry 0 is added instead.
step_out_boundary(element, j) == at(last(element.entries), 0)

\* "distance_from_right += element[j][0]": entry 0 of the seed's own chain entry.
step_out_distance(element, j) == at(at(element.entries, j), 0)

\* "if distance_from_right > max_distance: return"
reach_done(distance_from_right, max_distance) == distance_from_right > max_distance

\* The loop over the preceding sub-elements of a chain, for k in range(j-2, -1, -2),
\* from index k on.  done: the loop returned from the whole generator.
reach_chain_loop(element, max_distance, k, distance_from_right) ==
    IF k < 0
    THEN [out |-> <<>>, distance |-> distance_from_right, done |-> FALSE]
    ELSE LET d1 == distance_from_right + at(element.items, k + 1)
             emitted == yield_within(
                 zip_element_right_to_left_iterator(at(element.items, k), max_distance),
                 d1, max_distance)
             d2 == d1 + snarl_min_distance(at(element.items, k))
             rest == reach_chain_loop(element, max_distance, k - 2, d2)
         IN  IF reach_done(d1, max_distance)
             THEN [out |-> <<>>, distance |-> d1, done |-> TRUE]
             ELSE IF reach_done(d2, max_distance)
                  THEN [out |-> emitted, distance |-> d2, done |-> TRUE]
                  ELSE [out |-> emitted \o rest.out, distance |-> rest.distance,
                        done |-> rest.done]

\* The outer loop, for i in range(0, len(contained_elements), 2), from index i on.
\* out: the pairs yielded; trace: distance_from_right when each container is left
\* (or when the generator returns inside it).
reach_loop(contained_elements, max_distance, i, distance_from_right) ==
    IF i >= Len(contained_elements) THEN [out |-> <<>>, trace |-> <<>>]
    ELSE LET element == at(contained_elements, i)
             j == at(contained_elements, i + 1)
             emitted == reach_snarl_loop(element, j, max_distance, j - 1,
                                         distance_from_right)
             stepped == distance_from_right + step_out_distance(element, j)
             c == reach_chain_loop(element, max_distance, j - 2, distance_from_right)
             after == IF is_snarl(element) THEN stepped ELSE c.distance
             rest == reach_loop(contained_elements, max_distance, i + 2, after)
         IN  IF is_snarl(element)
             THEN IF reach_done(stepped, max_distance)
                  THEN [out |-> emitted, trace |-> <<stepped>>]
                  ELSE [out |-> emitted \o rest.out, trace |-> <<stepped>> \o rest.trace]
             ELSE IF c.done
                  THEN [out |-> c.out, trace |-> <<c.distance>>]
                  ELSE [out |-> c.out \o rest.out, trace |-> <<c.distance>> \o rest.trace]

zip_reachable_iterator(contained_elements, max_distance) ==
    reach_loop(contained_elements, max_distance, 0, 0).out

\* distance_from_right after each container of the walk.
reachable_trace(contained_elements, max_distance) ==
    reach_loop(contained_elements, max_distance, 0, 0).trace

(***************************************************************************)
(* zip_element_pairs_iterator                                              *)
(***************************************************************************)
RECURSIVE pairs_loop(_, _, _)

\* Mutant of pair_up: the reached seed is reported first.
pair_up_swapped(element, reached) ==
    [n \in 1..Len(reached) |-> <<reached[n][1], element, reached[n][2]>>]

\* "yield element, element2, distance" for every reached pair.
pair_up(element, reached) ==
    [n \in 1..Len(reached) |-> <<element, reached[n][1], reached[n][2]>>]

\* The loop over the left-to-right enumeration, from its n-th pair on.
pairs_loop(enumerated, max_distance, n) ==
    IF n > Len(enumerated) THEN <<>>
    ELSE pair_up(enumerated[n][1],
                 zip_reachable_iterator(enumerated[n][2], max_distance))
         \o pairs_loop(enumerated, max_distance, n + 1)

zip_element_pairs_iterator(tree, max_distance) ==
    pairs_loop(zip_element_left_to_right_iterator(tree), max_distance, 1)

(***************************************************************************)
(* Input trees.  Every tree follows the grammar of the file's docstring;   *)
(* seeds carry distinct names, distances are non-negative.                 *)
(***************************************************************************)
\* A distance derived from two free ones, within 0..MaxDist.
Mix(x, y) == (x + y + 1) % (MaxDist + 1)

\* The example tree of the file.
example_zip_tree ==
    Chain(<< Seed("a"), 5,
             Snarl(<< <<1, Chain(<<Seed("b")>>)>>, <<1, 0>> >>), 10,
             Seed("c"), 4, Seed("d"), 3,
             Snarl(<< <<2, Chain(<< Seed("e"), 4,
                                    Snarl(<< <<2, Chain(<<Seed("f")>>)>>, <<3, 0>> >>), 6,
                                    Seed("g") >>)>>,
                      <<4, 2, Chain(<<Seed("h")>>)>>,
                      <<1, 2, 1>> >>), 7,
             Seed("i"), 2, Seed("j") >>)

\* A chain of seeds.
seed_chain(p, q, r) == Chain(<<Seed("a"), p, Seed("b"), q, Seed("c"), r, Seed("d")>>)

\* A chain with a one-chain snarl between two seeds.
snarl_in_chain(p, q, r, s) ==
    Chain(<< Seed("a"), p,
             Snarl(<< <<q, Chain(<<Seed("b")>>)>>, <<r, s>> >>), Mix(p, q),
             Seed("c") >>)

\* A snarl of two chains.
two_chain_snarl(p, q, r, s) ==
    Snarl(<< <<p, Chain(<<Seed("a"), q, Seed("b")>>)>>,
             <<r, s, Chain(<<Seed("c")>>)>>,
             <<Mix(q, r), Mix(p, s), Mix(p, q)>> >>)

\* A snarl of three chains.
three_chain_snarl(p, q, r, s) ==
    Snarl(<< <<p, Chain(<<Seed("a")>>)>>,
             <<q, r, Chain(<<Seed("b")>>)>>,
             <<s, Mix(q, r), Mix(p, r), Chain(<<Seed("c")>>)>>,
             <<Mix(p, q), Mix(q, s), Mix(r, s), MaxDist - p>> >>)

\* A chain with an empty snarl (no chain entries, a one-entry boundary record).
empty_snarl_in_chain(p, q, r, s) ==
    Chain(<< Seed("a"), p, Snarl(<< <<q>> >>), r, Seed("b"), s, Seed("c") >>)

\* A chain holding a two-chain snarl whose first chain holds a snarl again.
nested_snarls(p, q, r, s) ==
    Chain(<< Seed("a"), p,
             Snarl(<< <<q, Chain(<< Seed("b"), r,
                                    Snarl(<< <<s, Chain(<<Seed("c")>>)>>,
                                             <<Mix(q, r), Mix(p, s)>> >>), Mix(p, q),
                                    Seed("d") >>)>>,
                      <<Mix(q, s), Mix(r, s), Chain(<<Seed("e")>>)>>,
                      <<MaxDist - p, MaxDist - q, MaxDist - r>> >>), Mix(q, MaxDist - r),
             Seed("f") >>)

Shapes == 1..7

input_tree(shape, p, q, r, s) ==
    CASE shape = 1 -> seed_chain(p, q, r)
      [] shape = 2 -> snarl_in_chain(p, q, r, s)
      [] shape = 3 -> two_chain_snarl(p, q, r, s)
      [] shape = 4 -> three_chain_snarl(p, q, r, s)
      [] shape = 5 -> empty_snarl_in_chain(p, q, r, s)
      [] shape = 6 -> nested_snarls(p, q, r, s)
      [] OTHER -> example_zip_tree

\* The values of max_distance a caller passes.
Bounds == (-1 .. MaxBound) \cup {DemoPairsBound, DemoLargeBound}

RECURSIVE sub_elements(_)
RECURSIVE sub_of_chain(_, _)
RECURSIVE sub_of_snarl(_, _)

sub_of_chain(e, i) ==
    IF i >= len(e) THEN <<>>
    ELSE sub_elements(at(e.items, i)) \o sub_of_chain(e, i + 2)

sub_of_snarl(e, i) ==
    IF i >= len(e) - 1 THEN <<>>
    ELSE sub_elements(last(at(e.entries, i))) \o sub_of_snarl(e, i + 1)

\* Every element of a tree (the tree itself first), as the grammar nests them.
sub_elements(e) ==
    <<e>> \o (IF is_snarl(e) THEN sub_of_snarl(e, 0)
              ELSE IF is_chain(e) THEN sub_of_chain(e, 0) ELSE <<>>)

(***************************************************************************)
(* The caller: one immutable tree and one bound, and the last call made.   *)
(***************************************************************************)
VARIABLES
    zip_tree,            \* the tree every query borrows
    max_distance,        \* the bound the caller passes
    call,                \* the generator called last ("none" before any call)
    element,             \* the element argument of the last call
    contained_elements,  \* the containment path argument of the last call
    result,              \* the sequence the last call yielded
    trace                \* distance_from_right after each container (outward walk)

vars == <<zip_tree, max_distance, call, element, contained_elements, result, trace>>

Init ==
    /\ \E shape \in Shapes : \E p, q, r, s \in 0..MaxDist :
           zip_tree = input_tree(shape, p, q, r, s)
    /\ max_distance \in Bounds
    /\ call = "none"
    /\ element = zip_tree
    /\ contained_elements = <<>>
    /\ result = <<>>
    /\ trace = <<>>

\* zip_element_right_to_left_iterator(element, max_distance), drained.
RightToLeft ==
    /\ call = "none"
    /\ \E n \in 1..Len(sub_elements(zip_tree)) :
        /\ call' = "right_to_left"
        /\ element' = sub_elements(zip_tree)[n]
        /\ contained_elements' = <<>>
        /\ result' = zip_element_right_to_left_iterator(element', max_distance)
        /\ trace' = <<>>
        /\ UNCHANGED <<zip_tree, max_distance>>

\* zip_element_left_to_right_iterator(element), drained.
LeftToRight ==
    /\ call = "none"
    /\ \E n \in 1..Len(sub_elements(zip_tree)) :
        /\ call' = "left_to_right"
        /\ element' = sub_elements(zip_tree)[n]
        /\ contained_elements' = <<>>
        /\ result' = zip_element_left_to_right_iterator(element')
        /\ trace' = <<>>
        /\ UNCHANGED <<zip_tree, max_distance>>

\* zip_reachable_iterator(contained_elements, max_distance), drained, on a path
\* the left-to-right enumeration of the tree produced.
Reachable ==
    /\ call = "none"
    /\ \E m \in 1..Len(zip_element_left_to_right_iterator(zip_tree)) :
        /\ call' = "reachable"
        /\ element' = zip_tree
        /\ contained_elements' = zip_element_left_to_right_iterator(zip_tree)[m][2]
        /\ result' = zip_reachable_iterator(contained_elements', max_distance)
        /\ trace' = reachable_trace(contained_elements', max_distance)
        /\ UNCHANGED <<zip_tree, max_distance>>

\* zip_element_pairs_iterator(zip_tree, max_distance), drained.
Pairs ==
    /\ call = "none"
    /\ call' = "pairs"
    /\ element' = zip_tree
    /\ contained_elements' = <<>>
    /\ result' = zip_element_pairs_iterator(zip_tree, max_distance)
    /\ trace' = <<>>
    /\ UNCHANGED <<zip_tree, max_distance>>

\* The caller is through with the generator and is free to make the next query.
Return ==
    /\ call # "none"
    /\ call' = "none"
    /\ element' = zip_tree
    /\ contained_elements' = <<>>
    /\ result' = <<>>
    /\ trace' = <<>>
    /\ UNCHANGED <<zip_tree, max_distance>>

Next == RightToLeft \/ LeftToRight \/ Reachable \/ Pairs \/ Return

Spec == Init /\ [][Next]_vars

(***************************************************************************)
(* Reference semantics of the data model, used to state the properties:    *)
(* seed order and the distances the tree's tokens imply.  Seeds are told   *)
(* apart by name (the input trees name every seed position differently).   *)
(***************************************************************************)
same_seed(x, s) == x.kind = "seed" /\ x.name = s.name

\* The seeds of an element from left to right.
seeds_in_order(e) == SelectSeq(sub_elements(e), LAMBDA x : x.kind = "seed")

contains(e, s) == \E n \in 1..Len(sub_elements(e)) : same_seed(sub_elements(e)[n], s)

\* Python indexes of the sub-elements of a chain, and of the chain entries of a snarl.
element_indexes(e) == {i \in 0..(len(e) - 1) : i % 2 = 0}
entry_indexes(e) == 0..(len(e) - 2)

chain_of(e, k) == last(at(e.entries, k))
boundary(e) == last(e.entries)

\* The sub-element of chain e, and the chain entry of snarl e, that holds seed s.
index_in_chain(e, s) == CHOOSE i \in element_indexes(e) : contains(at(e.items, i), s)
index_in_snarl(e, s) == CHOOSE k \in entry_indexes(e) : contains(chain_of(e, k), s)

\* What crossing the chain token at python index i costs: a gap token itself, a
\* snarl its boundary-record entry 0, a seed nothing.
token_cost(e, i) ==
    IF i % 2 = 1 THEN at(e.items, i)
    ELSE IF at(e.items, i).kind = "snarl" THEN at(boundary(at(e.items, i)), 0) ELSE 0

RECURSIVE span_cost(_, _, _)
span_cost(e, lo, hi) ==
    IF lo > hi THEN 0 ELSE token_cost(e, lo) + span_cost(e, lo + 1, hi)

RECURSIVE to_right_side(_, _)
\* The distance of seed s to the right side of the element e that holds it.
to_right_side(e, s) ==
    IF is_chain(e)
    THEN to_right_side(at(e.items, index_in_chain(e, s)), s)
         + span_cost(e, index_in_chain(e, s) + 1, len(e) - 1)
    ELSE IF is_snarl(e)
         THEN to_right_side(chain_of(e, index_in_snarl(e, s)), s)
              + at(boundary(e), index_in_snarl(e, s) + 1)
         ELSE 0

RECURSIVE to_left_side(_, _)
\* The distance of seed s to the left side of the element e that holds it.
to_left_side(e, s) ==
    IF is_chain(e)
    THEN to_left_side(at(e.items, index_in_chain(e, s)), s)
         + span_cost(e, 0, index_in_chain(e, s) - 1)
    ELSE IF is_snarl(e)
         THEN to_left_side(chain_of(e, index_in_snarl(e, s)), s)
              + at(at(e.entries, index_in_snarl(e, s)), 0)
         ELSE 0

RECURSIVE true_distance(_, _, _)
\* The distance of an earlier seed a and a later seed b, both in e, taken at
\* their lowest common container.
true_distance(e, a, b) ==
    IF is_chain(e)
    THEN LET ia == index_in_chain(e, a)
             ib == index_in_chain(e, b)
         IN  IF ia = ib THEN true_distance(at(e.items, ia), a, b)
             ELSE to_left_side(at(e.items, ib), b) + span_cost(e, ia + 1, ib - 1)
                  + to_right_side(at(e.items, ia), a)
    ELSE LET ka == index_in_snarl(e, a)
             kb == index_in_snarl(e, b)
         IN  IF ka = kb THEN true_distance(chain_of(e, ka), a, b)
             ELSE to_left_side(chain_of(e, kb), b) + at(at(e.entries, kb), ka + 1)
                  + to_right_side(chain_of(e, ka), a)

\* The place of seed s in the order in which the left-to-right enumerator yields
\* the seeds of the tree.
position(s) ==
    CHOOSE n \in 1..Len(zip_element_left_to_right_iterator(zip_tree)) :
        same_seed(zip_element_left_to_right_iterator(zip_tree)[n][1], s)

emits_distances == call \in {"right_to_left", "reachable", "pairs"}
distance_of(x) == x[Len(x)]
within(emitted, bound) == SelectSeq(emitted, LAMBDA x : x[2] <= bound)

\* The pairs (i, j), i < j, of places in a sequence of seeds.
pairs_of(seeds) == {ij \in (1..Len(seeds)) \X (1..Len(seeds)) : ij[1] < ij[2]}
seed_pairs == pairs_of(seeds_in_order(zip_tree))

\* The triples of the result that report seeds a and b, in either order.
reports(a, b) ==
    {n \in 1..Len(result) :
        \/ same_seed(result[n][1], a) /\ same_seed(result[n][2], b)
        \/ same_seed(result[n][1], b) /\ same_seed(result[n][2], a)}

(***************************************************************************)
(* Properties                                                              *)
(***************************************************************************)
\* C1: with max_distance >= 0, every distance the right-to-left walker (on an
\* element of any kind), the outward walker (on a path of the left-to-right
\* enumeration) and the all-pairs enumerator emit is <= max_distance.
C1_BoundRespected ==
    (emits_distances /\ max_distance >= 0)
        => \A n \in 1..Len(result) : distance_of(result[n]) <= max_distance

\* An all-pairs query that reports a pair at exactly the bound and leaves a pair out.
C1_Witness ==
    /\ call = "pairs"
    /\ max_distance >= 0
    /\ \E n \in 1..Len(result) : distance_of(result[n]) = max_distance
    /\ Len(result) < Cardinality(seed_pairs)

\* C2: with max_distance >= 0, the all-pairs enumerator emits exactly one triple
\* for every pair of distinct seed positions whose true distance is <= max_distance,
\* with that distance, and no other triple.
C2_PairsExact ==
    (call = "pairs" /\ max_distance >= 0)
        => LET seeds == seeds_in_order(zip_tree)
           IN  /\ \A ij \in pairs_of(seeds) :
                      LET d == true_distance(zip_tree, seeds[ij[1]], seeds[ij[2]])
                          found == reports(seeds[ij[1]], seeds[ij[2]])
                      IN  /\ Cardinality(found) = (IF d <= max_distance THEN 1 ELSE 0)
                          /\ \A n \in found : result[n][3] = d
               /\ \A n \in 1..Len(result) :
                      \E ij \in pairs_of(seeds) :
                          n \in reports(seeds[ij[1]], seeds[ij[2]])

\* An all-pairs query that reports a pair of seeds lying in two different chains of
\* one snarl, the earlier one inside a snarl nested in its chain, and leaves a pair out.
C2_Witness ==
    /\ call = "pairs"
    /\ max_distance >= 0
    /\ Len(result) < Cardinality(seed_pairs)
    /\ \E n \in 1..Len(result) : \E m \in 1..Len(sub_elements(zip_tree)) :
           LET e == sub_elements(zip_tree)[m]
           IN  /\ is_snarl(e)
               /\ len(e) >= 3
               /\ contains(chain_of(e, 1), result[n][1])
               /\ contains(chain_of(e, 0), result[n][2])
               /\ \E i \in element_indexes(chain_of(e, 0)) :
                      /\ is_snarl(at(chain_of(e, 0).items, i))
                      /\ contains(at(chain_of(e, 0).items, i), result[n][2])

\* C3 as stated: in every emitted triple the first seed precedes the second one in
\* the left-to-right order.
C3_FirstPrecedesSecond ==
    call = "pairs"
        => \A n \in 1..Len(result) : position(result[n][1]) < position(result[n][2])

\* C3 amended: in every emitted triple the second seed precedes the first one in
\* the left-to-right order (the triple is (later seed, earlier seed, distance)).
C3_SecondPrecedesFirst ==
    call = "pairs"
        => \A n \in 1..Len(result) : position(result[n][2]) < position(result[n][1])

\* An all-pairs query that reports pairs.
C3_Witness == call = "pairs" /\ Len(result) >= 2

\* C4: with max_distance < 0 every query yields the empty sequence.
C4_NegativeBoundEmpty ==
    (emits_distances /\ max_distance < 0) => result = <<>>

\* The element a container holds at a recorded index: element[i] for a chain,
\* element[i][-1] for a snarl.
held(container, i) ==
    IF is_chain(container) THEN at(container.items, i) ELSE chain_of(container, i)

\* The l-th (container, index) entry of a containment path, innermost first.
container_at(path, l) == path[2 * l - 1]
index_at(path, l) == path[2 * l]

\* C5: the left-to-right enumerator yields every seed of the element once, in
\* left-to-right order, each with a path of (container, index) entries that runs
\* from the container holding the seed out to the element the walk started on;
\* a bare seed gets the empty path.
C5_EnumerationAndPaths ==
    call = "left_to_right"
        => /\ [n \in 1..Len(result) |-> result[n][1]] = seeds_in_order(element)
           /\ \A n \in 1..Len(result) :
                  LET seed == result[n][1]
                      path == result[n][2]
                      depth == Len(path) \div 2
                  IN  /\ Len(path) % 2 = 0
                      /\ (depth = 0) <=> (element.kind = "seed")
                      /\ depth > 0 =>
                            /\ container_at(path, depth) = element
                            /\ held(container_at(path, 1), index_at(path, 1)) = seed
                            /\ \A l \in 2..depth :
                                   held(container_at(path, l), index_at(path, l))
                                       = container_at(path, l - 1)

\* An enumeration of a tree that yields a seed lying four containers deep, after
\* another seed.
C5_Witness ==
    /\ call = "left_to_right"
    /\ element = zip_tree
    /\ \E n \in 2..Len(result) : Len(result[n][2]) >= 8

\* Every gap token and every chain-entry distance of the tree is positive.
positive_gaps(tree) ==
    \A m \in 1..Len(sub_elements(tree)) :
        LET e == sub_elements(tree)[m]
        IN  /\ is_chain(e) => \A i \in 0..(len(e) - 1) : i % 2 = 1 => at(e.items, i) > 0
            /\ is_snarl(e) => \A k \in entry_indexes(e) :
                                  \A c \in 0..k : at(at(e.entries, k), c) > 0

\* C6 as stated: with max_distance = 0 the outward walker and the all-pairs
\* enumerator yield nothing (and the right-to-left walker nothing at a distance
\* other than 0), zero-length gaps and zero snarl distances included.
C6_ZeroBoundEmpty ==
    max_distance = 0
        => /\ call \in {"reachable", "pairs"} => result = <<>>
           /\ call = "right_to_left"
                  => \A n \in 1..Len(result) : distance_of(result[n]) = 0

\* C6 amended: with max_distance = 0 every emitted distance is 0, the
\* right-to-left walker on a seed yields exactly (seed, 0), and the outward walker
\* and the all-pairs enumerator yield nothing when every gap token and every
\* chain-entry distance of the tree is positive.
C6_ZeroBoundOnlyZero ==
    max_distance = 0
        => /\ emits_distances => \A n \in 1..Len(result) : distance_of(result[n]) = 0
           /\ (call = "right_to_left" /\ element.kind = "seed")
                  => result = << <<element, 0>> >>
           /\ (call \in {"reachable", "pairs"} /\ positive_gaps(zip_tree))
                  => result = <<>>

\* An all-pairs query with max_distance = 0 that reports a pair, and leaves one out.
C6_Witness ==
    /\ call = "pairs"
    /\ max_distance = 0
    /\ result # <<>>
    /\ Len(result) < Cardinality(seed_pairs)

\* distance_from_right when the walk entered the l-th container of the path.
trace_before(l) == IF l = 1 THEN 0 ELSE trace[l - 1]

C8_EarlyTerminationKeepsInBound ==
    max_distance >= 0
        => /\ call = "right_to_left"
                  => result = within(zip_element_right_to_left_iterator(
                                         element, DemoLargeBound), max_distance)
           /\ call = "reachable"
                  => result = within(zip_reachable_iterator(
                                         contained_elements, DemoLargeBound), max_distance)

\* A right-to-left walk of a chain that emits a seed at exactly the bound and stops
\* before the chain's left end.
C8_Witness ==
    /\ call = "right_to_left"
    /\ is_chain(element)
    /\ max_distance >= 0
    /\ \E n \in 1..Len(result) : result[n][2] = max_distance
    /\ Len(result) < Len(zip_element_right_to_left_iterator(element, DemoLargeBound))

\* The python index of seed s among the sub-elements of chain e (-1: not one).
direct_index(e, s) ==
    IF \E i \in element_indexes(e) : same_seed(at(e.items, i), s)
    THEN CHOOSE i \in element_indexes(e) : same_seed(at(e.items, i), s)
    ELSE -1

\* C9: the distances the right-to-left walker emits for the seeds that are direct
\* sub-elements of a chain are non-decreasing in emission order, which runs from
\* the rightmost such seed to the leftmost one.
C9_ChainMonotone ==
    (call = "right_to_left" /\ is_chain(element) /\ max_distance >= 0)
        => \A m, n \in 1..Len(result) :
               (/\ m < n
                /\ direct_index(element, result[m][1]) >= 0
                /\ direct_index(element, result[n][1]) >= 0)
                   => /\ result[m][2] <= result[n][2]
                      /\ direct_index(element, result[m][1])
                             > direct_index(element, result[n][1])

\* A right-to-left walk of a chain that emits two of its seeds with a snarl of
\* positive skip distance between them.
C9_Witness ==
    /\ call = "right_to_left"
    /\ is_chain(element)
    /\ max_distance >= 0
    /\ \E m, n \in 1..Len(result) : \E i \in element_indexes(element) :
           /\ m < n
           /\ direct_index(element, result[m][1]) > i
           /\ i > direct_index(element, result[n][1])
           /\ direct_index(element, result[n][1]) >= 0
           /\ token_cost(element, i) > 0
           /\ result[m][2] < result[n][2]

is_empty_snarl(e) == is_snarl(e) /\ len(e) = 1
has_empty_snarl(e) ==
    is_chain(e) /\ \E i \in element_indexes(e) : is_empty_snarl(at(e.items, i))

\* C10: both walkers yield nothing for an empty snarl; the walks of a chain that
\* holds an empty snarl still yield the chain's seeds, the right-to-left walker at
\* the distance that counts the gaps and the boundary-record entry 0 of every
\* snarl to the seed's right (when that is within max_distance).
C10_EmptySnarl ==
    /\ (call \in {"right_to_left", "left_to_right"} /\ is_empty_snarl(element))
           => result = <<>>
    /\ (call = "left_to_right" /\ has_empty_snarl(element))
           => \A i \in element_indexes(element) :
                  at(element.items, i).kind = "seed"
                      => \E n \in 1..Len(result) : same_seed(result[n][1], at(element.items, i))
    /\ (call = "right_to_left" /\ has_empty_snarl(element))
           => \A i \in element_indexes(element) :
                  (/\ at(element.items, i).kind = "seed"
                   /\ span_cost(element, i + 1, len(element) - 1) <= max_distance)
                      => \E n \in 1..Len(result) :
                             /\ same_seed(result[n][1], at(element.items, i))
                             /\ result[n][2] = span_cost(element, i + 1, len(element) - 1)

\* A right-to-left walk of a chain that emits a seed lying left of an empty snarl
\* whose boundary-record entry 0 is positive, and a seed lying right of it.
C10_Witness ==
    /\ call = "right_to_left"
    /\ has_empty_snarl(element)
    /\ \E i \in element_indexes(element) :
           /\ is_empty_snarl(at(element.items, i))
           /\ at(boundary(at(element.items, i)), 0) > 0
           /\ \E n \in 1..Len(result) : direct_index(element, result[n][1]) > i
           /\ \E n \in 1..Len(result) :
                  /\ direct_index(element, result[n][1]) >= 0
                  /\ direct_index(element, result[n][1]) < i

====
